---- MODULE Spec2Model ----
(***************************************************************************)
(* State-machine model of the bucket-notification listener of              *)
(* openhim-datalake-lib: ListenerManager (processor registry, per-bucket   *)
(* subscriptions, notification dispatch with temp-file staging) and the    *)
(* process-wide MediatorEventEmitter it publishes to.                      *)
(*                                                                         *)
(* One handleNotification call is a "dispatch".  A dispatch is cut at its  *)
(* awaits (fGetObject, readFile, processor.process, rm); the synchronous   *)
(* code between two awaits is one atomic step, as on the Node event loop.  *)
(***************************************************************************)
EXTENDS Integers, Sequences, FiniteSets, TLC

\* ------------------------------------------------------------------ bounds
MaxProcs == 2      \* processors registered at most
MaxSubs == 2       \* bus subscribers registered at most
MaxPollers == 3    \* subscriptions opened at most (over the whole run)
MaxEvents == 2     \* object-created events at most (over the whole run)
MaxInFlight == 2   \* handleNotification calls in flight at most
MaxListLen == 2    \* length of a startListening argument
MaxCalls == 2      \* upload and registerBucket calls at most (whole run)
MaxErrors == 1     \* poller "error" events at most (over the whole run)

\* ------------------------------------------------------------ input domains
\* Bucket names the storage client accepts, and one it rejects:
\* listenBucketNotification throws on an invalid bucket name.
Buckets == {"b1", "b2"}
InvalidBucket == "Bad_Name"
Names == Buckets \cup {InvalidBucket}

\* An object key is the sequence of its "."-separated segments
\* ("data.json" is <<"data", "json">>, "" is <<"">>); the empty sequence
\* stands for a payload without s3.object.key (undefined).
NoKey == <<>>
EmptyKey == << "" >>
FileKeys == { <<"data", "json">>, <<"report">> }
EventKeys == FileKeys \cup {NoKey, EmptyKey}
\* More file names, for the MIME classifier: upper-case and mixed-case
\* extensions, several dots, an unknown extension, and no extension.
MimeKeys ==
    FileKeys \cup { <<"data", "JSON">>, <<"a", "b", "Csv">>, <<"x", "bin">>,
                    <<"Report">>, <<"json">> }

\* Processor plugins, by behaviour of canProcess.  The outcome of process()
\* is chosen at each invocation.
ProcKinds == {"json", "all", "bad"}
\* Bus subscribers: one that returns, one that throws.
SubKinds == {"ok", "throw"}

EventType == "s3:ObjectCreated:*"

VARIABLES
    processors,         \* ListenerManager.processors
    registeredBuckets,  \* ListenerManager.registeredBuckets
    listeners,          \* ListenerManager.listeners: bucket -> poller id
    pollers,            \* every NotificationPoller opened so far
    busSubs,            \* mediatorEvents: "bucket:notification" listeners
    tmp,                \* the files under tmp/: key -> bucket its bytes came from
    dispatches,         \* the handleNotification calls in flight
    finished,           \* the handleNotification call that settled last
    events,             \* number of object-created events so far
    lastCall            \* the last startListening/stopListening call: the
                        \* events being handled when stopListening was made, the
                        \* bucket names it was given, whether it threw

VARIABLES
    transportErrors,    \* the poller "error" events the manager logged: the
                        \* poller, and the number of events at that time
    upSubs,             \* mediatorEvents: "file:uploaded" listeners
    objects,            \* the object store: (bucket, name) -> content type
    registry,           \* OpenHIM: the config of the mediator
    calls,              \* the upload and registerBucket calls in flight
    settled,            \* the upload or registerBucket call that settled last
    started             \* number of upload and registerBucket calls so far

uploadVars == <<upSubs, objects, registry, calls, settled, started>>

VARIABLES
    known,              \* BucketManager.registeredBuckets
    storeBuckets,       \* the buckets that exist in the object store
    listed,             \* the array the last getProcessors call returned
    copied,             \* the set the last getRegisteredBuckets call returned
    ens,                \* the direct ensureExists call in flight or settled last
    setup,              \* the setupMediator call in flight or settled last
    asked               \* the processors passed to registerProcessor, in call order

bucketVars == <<known, storeBuckets>>
sideVars == <<listed, copied, ens, setup>>

vars == <<processors, registeredBuckets, listeners, pollers, busSubs, tmp,
          dispatches, finished, events, lastCall, transportErrors, uploadVars,
          bucketVars, sideVars, asked>>

Slots == 1..MaxInFlight

Range(s) == {s[i] : i \in DOMAIN s}

\* ---------------------------------------------------------- pure functions
Lower(seg) ==
    CASE seg = "JSON" -> "json"
      [] seg = "Report" -> "report"
      [] seg = "Csv" -> "csv"
      [] OTHER -> seg

MimeTypes ==
    [json |-> "application/json", csv |-> "text/csv", txt |-> "text/plain",
     xml |-> "application/xml", mp3 |-> "audio/mpeg", wav |-> "audio/wav",
     mp4 |-> "video/mp4", pdf |-> "application/pdf", png |-> "image/png",
     jpg |-> "image/jpeg", jpeg |-> "image/jpeg"]

\* file.split(".").pop()?.toLowerCase(), then the table or the default
detectMimeType(file) ==
    LET ext == Lower(file[Len(file)])
    IN IF ext \in DOMAIN MimeTypes THEN MimeTypes[ext]
       ELSE "application/octet-stream"

\* processor.canProcess(file, mimeType): "true", "false" or "throw"
canProcess(kind, file, mimeType) ==
    CASE kind = "json" -> IF mimeType = "application/json" THEN "true" ELSE "false"
      [] kind = "all" -> "true"
      [] kind = "bad" -> "throw"

\* faulty variant: only a missing key is rejected, an empty one is not
FalsyUndefinedOnly(key) == key = NoKey

\* !file
Falsy(key) == key = NoKey \/ key = EmptyKey

\* EventEmitter.emit: the listeners are called in registration order; the
\* first one that throws ends the emit (the exception leaves emit).
RECURSIVE Called(_, _)
Called(subs, i) ==
    IF i > Len(subs) THEN <<>>
    ELSE IF subs[i] = "throw" THEN <<i>>
    ELSE <<i>> \o Called(subs, i + 1)

EmitThrows(subs) == \E i \in DOMAIN subs : subs[i] = "throw"

\* the listeners the shared emitter holds for an event name
Listeners(name) ==
    CASE name = "bucket:notification" -> busSubs
      [] name = "file:uploaded" -> upSubs

\* this.emit(name, event): the listeners that were called, in call order
Emit(name) ==
    LET c == Called(Listeners(name), 1)
    IN [k \in 1..Len(c) |-> [kind |-> name, sub |-> c[k]]]

\* ------------------------------------------------------------ dispatches
\* nsubs is the number of listeners registered when the signal was emitted.
\* What one handleNotification call has done so far, in order: an entry per
\* call it made (emit, fetch, read, canProcess i, process i, rm) and per line
\* it logged at warn or error level.  ev is the event it handles, via the
\* poller that delivered it.
Op(name, i) == [op |-> name, i |-> i]

Idle ==
    [pc |-> "idle", ev |-> 0, via |-> 0, bucket |-> "", file |-> NoKey,
     result |-> "none",
     signals |-> <<>>, delivered |-> <<>>, nsubs |-> 0, buffer |-> "none",
     mimeType |-> "",
     idx |-> 0, snap |-> 0, plen |-> 0, failed |-> {}, missing |-> FALSE,
     ops |-> <<>>]

Free(s) == dispatches[s].pc = "idle"

\* the in-flight calls after call s moved to d: a settled call leaves its slot
Moved(s, d) ==
    [dispatches EXCEPT ![s] = IF d.pc = "done" THEN Idle ELSE d]

Settled(d) == IF d.pc = "done" THEN d ELSE finished

\* the catch block of handleNotification: log the error, return
Caught(d) ==
    [d EXCEPT !.pc = "done", !.result = "returned",
              !.ops = Append(@, Op("error", 0))]

\* faulty variant: fGetObject is called before the signal is published
AnnounceAfterFetch(d) ==
    [d EXCEPT
       !.signals = <<[bucket |-> d.bucket, file |-> d.file,
                      eventType |-> EventType]>>,
       !.delivered = Emit("bucket:notification"),
       !.nsubs = Len(busSubs),
       !.pc = "fetch", !.result = "pending",
       !.ops = @ \o <<Op("fetch", 0), Op("emit", 0)>>]

\* mediatorEvents.emitNotification, then the call of fGetObject
Announce(d) ==
    LET e == [d EXCEPT
                !.signals = <<[bucket |-> d.bucket, file |-> d.file,
                               eventType |-> EventType]>>,
                !.delivered = Emit("bucket:notification"),
                !.nsubs = Len(busSubs),
                !.ops = Append(@, Op("emit", 0))]
    IN IF EmitThrows(busSubs)
       THEN [e EXCEPT !.pc = "done", !.result = "rejected"]
       ELSE [e EXCEPT !.pc = "fetch", !.result = "pending",
                      !.ops = Append(@, Op("fetch", 0))]

\* handleNotification up to its first await
Enter(ev, bucket, key) ==
    LET d == [Idle EXCEPT !.ev = ev, !.bucket = bucket, !.file = key]
    IN IF Falsy(key)
       THEN [d EXCEPT !.pc = "done", !.result = "returned",
                      !.ops = Append(@, Op("warn", 0))]
       ELSE Announce(d)

\* the fan-out loop from processor i on, up to the next await
RECURSIVE RunLoop(_, _)
RunLoop(d, i) ==
    IF i > Len(processors)
    THEN [d EXCEPT !.pc = "rm", !.plen = Len(processors),
                   !.ops = Append(@, Op("rm", 0))]
    ELSE LET c == canProcess(processors[i], d.file, d.mimeType)
             e == [d EXCEPT !.ops = Append(@, Op("canProcess", i))]
         IN CASE c = "throw" -> Caught([e EXCEPT !.plen = Len(processors)])
              [] c = "true" ->
                   [e EXCEPT !.pc = "process", !.idx = i,
                             !.ops = Append(@, Op("process", i))]
              [] OTHER -> RunLoop(e, i + 1)

\* faulty variant: the cleanup runs in a finally block, also after a failed fetch
FetchFailedThenCleanup(d) ==
    [d EXCEPT !.pc = "rm", !.ops = @ \o <<Op("error", 0), Op("rm", 0)>>]

\* fGetObject rejected
FetchFailed(d) == Caught(d)

\* readFile or rm rejected because tmp/<file> does not exist (ENOENT)
Lost(d) == Caught([d EXCEPT !.missing = TRUE])

\* fGetObject resolved: the file is written, readFile is called
Fetched(d) ==
    [d EXCEPT !.pc = "read", !.ops = Append(@, Op("read", 0))]

\* readFile resolved with the bytes of the temporary file; snap is the number
\* of processors registered when the fan-out loop starts
Staged(d, bytes) ==
    RunLoop([d EXCEPT !.buffer = bytes, !.mimeType = detectMimeType(d.file),
                      !.snap = Len(processors)], 1)

\* faulty variant: the file is read again before the next processor
AfterSuccessReread(d) ==
    RunLoop([d EXCEPT !.ops = Append(@, Op("read", 0))], d.idx + 1)

\* processor.process resolved
AfterSuccess(d) == RunLoop(d, d.idx + 1)

\* faulty variant: no inner try/catch: a raised action ends the dispatch
AbortOnFailure(d) ==
    Caught([d EXCEPT !.failed = @ \cup {d.idx}, !.plen = Len(processors)])

\* processor.process raised: the inner catch logs, the loop goes on
AfterFailure(d) ==
    RunLoop([d EXCEPT !.failed = @ \cup {d.idx},
                      !.ops = Append(@, Op("error", d.idx))], d.idx + 1)

\* rm resolved
Cleaned(d) == [d EXCEPT !.pc = "done", !.result = "returned"]

\* -------------------------------------------------------------- uploads
UpFile == "data.json"
ContentTypes == {"application/json", "text/csv"}
ObjectKeys == Buckets \X {UpFile}
CallSlots == 1..MaxInFlight

NoCall ==
    [op |-> "none", pc |-> "idle", id |-> 0, bucket |-> "", mime |-> "",
     reg |-> FALSE, stored |-> FALSE, cfg |-> "none", local |-> <<>>,
     ret |-> "none", puts |-> 0, signals |-> 0, delivered |-> <<>>,
     nsubs |-> 0, result |-> "none"]

NoList == [alias |-> FALSE, items |-> <<>>, edited |-> FALSE, at |-> 0]
NoSet == [alias |-> FALSE, items |-> {}, edited |-> FALSE]
NoEnsure ==
    [pc |-> "idle", bucket |-> "", create |-> FALSE, before |-> {},
     found |-> "unknown", made |-> FALSE, result |-> "none"]
\* promise, reason, settles, active and ops belong to the n-th (last)
\* setupMediator call; emitters counts the heartbeats activated and logged
\* holds the heartbeat errors logged over the whole run
NoSetup ==
    [pc |-> "idle", n |-> 0, config |-> "none", promise |-> "none",
     reason |-> "none",
     settles |-> 0, active |-> FALSE, ops |-> <<>>, emitters |-> 0,
     logged |-> <<>>, openhimConfig |-> <<>>]

\* the services as constructed: no bucket ensured, nothing listed, no
\* setupMediator call; both buckets exist in the object store
Untouched ==
    /\ known = {}
    /\ storeBuckets = Buckets
    /\ listed = NoList
    /\ copied = NoSet
    /\ ens = NoEnsure
    /\ setup = NoSetup
    /\ asked = processors

\* nothing was uploaded or registered yet; the mediator has an empty registry
NoUploads ==
    /\ upSubs = <<>>
    /\ objects = [k \in ObjectKeys |-> "none"]
    /\ registry = [section |-> TRUE, buckets |-> <<>>]
    /\ calls = [s \in CallSlots |-> NoCall]
    /\ settled = NoCall
    /\ started = 0
    /\ Untouched

FreeCall(s) == calls[s].pc = "idle"

\* the calls in flight after call s moved to c: a settled call leaves its slot
CallMoved(s, c) == [calls EXCEPT ![s] = IF c.pc = "done" THEN NoCall ELSE c]

CallSettled(c) == IF c.pc = "done" THEN c ELSE settled

\* the catch block: uploadBuffer returns success=false, uploadFromPath throws
Failed(c) ==
    [c EXCEPT !.pc = "done",
              !.result = IF c.op = "uploadBuffer" THEN "failure" ELSE "threw"]

\* mediatorEvents.emitUpload, then return success=true
Finish(c) ==
    LET e == [c EXCEPT !.signals = @ + 1, !.delivered = Emit("file:uploaded"),
                       !.nsubs = Len(upSubs)]
    IN IF EmitThrows(upSubs) THEN Failed(e)
       ELSE [e EXCEPT !.pc = "done", !.result = "success"]

\* registerBucket settled with r ("true", "false" or "threw")
Returned(c, r) ==
    LET e == [c EXCEPT !.ret = r]
    IN CASE c.op = "registerBucket" -> [e EXCEPT !.pc = "done", !.result = r]
         [] r = "threw" -> Failed(e)
         [] OTHER -> Finish(e)

\* the object was stored: register the bucket if asked to, then emit
AfterStore(c) ==
    LET e == [c EXCEPT !.stored = TRUE]
    IN IF c.reg THEN [e EXCEPT !.pc = "regGet"] ELSE Finish(e)

Has(buckets, b) == \E i \in DOMAIN buckets : buckets[i] = b

\* faulty variant: registerBucket without the test for an existing entry
GotConfigNoTest(c) ==
    IF ~registry.section
    THEN [c EXCEPT !.cfg = "nosection", !.local = <<c.bucket>>,
                   !.puts = @ + 1, !.pc = "regPut"]
    ELSE [c EXCEPT !.cfg = IF Has(registry.buckets, c.bucket)
                           THEN "present" ELSE "absent",
                   !.local = Append(registry.buckets, c.bucket),
                   !.puts = @ + 1, !.pc = "regPut"]

\* registerBucket after getMediatorConfig returned the config: up to the
\* call of putMediatorConfig, or to return false
GotConfig(c) ==
    IF ~registry.section
    THEN [c EXCEPT !.cfg = "nosection", !.local = <<c.bucket>>,
                   !.puts = @ + 1, !.pc = "regPut"]
    ELSE IF Has(registry.buckets, c.bucket)
    THEN Returned([c EXCEPT !.cfg = "present"], "false")
    ELSE [c EXCEPT !.cfg = "absent",
                   !.local = Append(registry.buckets, c.bucket),
                   !.puts = @ + 1, !.pc = "regPut"]

\* registerBucket after getMediatorConfig returned null
NoConfig(c) == Returned([c EXCEPT !.cfg = "null"], "false")

\* putMediatorConfig rethrows the error of the request
PutFailed(c) == Returned(c, "threw")

\* ---------------------------------------------------------------- Init
Init ==
    /\ processors = <<>>
    /\ registeredBuckets = {}
    /\ listeners = <<>>
    /\ pollers = <<>>
    /\ busSubs = <<>>
    /\ tmp = [k \in FileKeys |-> "none"]
    /\ dispatches = [s \in Slots |-> Idle]
    /\ finished = Idle
    /\ events = 0
    /\ lastCall = [op |-> "none", buckets |-> {}, threw |-> FALSE, during |-> {}]
    /\ transportErrors = <<>>
    /\ NoUploads

\* --------------------------------------------------------------- actions
\* faulty variant: a processor that is already registered is not added again
registerProcessorOnce(kind) ==
    /\ processors' = IF kind \in Range(processors) THEN processors
                     ELSE Append(processors, kind)
    /\ asked' = Append(asked, kind)
    /\ UNCHANGED <<registeredBuckets, listeners, pollers, busSubs, tmp,
                   dispatches, finished, events, lastCall>>
    /\ UNCHANGED <<transportErrors, uploadVars, bucketVars, sideVars>>

registerProcessor(kind) ==
    /\ processors' = Append(processors, kind)
    /\ asked' = Append(asked, kind)
    /\ UNCHANGED <<registeredBuckets, listeners, pollers, busSubs, tmp,
                   dispatches, finished, events, lastCall>>
    /\ UNCHANGED <<transportErrors, uploadVars, bucketVars, sideVars>>

onNotification(kind) ==
    /\ busSubs' = Append(busSubs, kind)
    /\ UNCHANGED <<processors, registeredBuckets, listeners, pollers, tmp,
                   dispatches, finished, events, lastCall>>
    /\ UNCHANGED <<transportErrors, uploadVars, bucketVars,
                      sideVars, asked>>

\* the events whose handleNotification call is in flight
InFlight == {dispatches[s].ev : s \in {t \in Slots : ~Free(t)}}

\* client.listenBucketNotification(bucket, ...): a new poller, or an exception
Opens(b) == b \in Buckets

\* faulty variant: startListening without the registeredBuckets.has(bucket) test
RECURSIVE StartFromUnchecked(_, _, _)
StartFromUnchecked(st, buckets, i) ==
    IF i > Len(buckets) THEN st
    ELSE LET b == buckets[i]
             id == Len(st.pol) + 1
         IN IF ~Opens(b) THEN [st EXCEPT !.threw = TRUE]
            ELSE StartFromUnchecked(
                   [st EXCEPT
                      !.pol = Append(@, [bucket |-> b, stopped |-> FALSE]),
                      !.reg = @ \cup {b},
                      !.lis = [x \in DOMAIN @ \cup {b} |->
                                 IF x = b THEN id ELSE @[x]]],
                   buckets, i + 1)

\* faulty variant: the bucket is recorded before its subscription is opened
RECURSIVE StartFromRecordFirst(_, _, _)
StartFromRecordFirst(st, buckets, i) ==
    IF i > Len(buckets) THEN st
    ELSE LET b == buckets[i]
         IN IF b \in st.reg THEN StartFromRecordFirst(st, buckets, i + 1)
            ELSE IF ~Opens(b)
                 THEN [st EXCEPT !.threw = TRUE, !.reg = @ \cup {b}]
            ELSE LET id == Len(st.pol) + 1
                 IN StartFromRecordFirst(
                      [st EXCEPT
                         !.pol = Append(@, [bucket |-> b, stopped |-> FALSE]),
                         !.reg = @ \cup {b},
                         !.lis = [x \in DOMAIN @ \cup {b} |->
                                    IF x = b THEN id ELSE @[x]]],
                      buckets, i + 1)

\* the loop of startListening over buckets[i..]; st is the bookkeeping so far
RECURSIVE StartFrom(_, _, _)
StartFrom(st, buckets, i) ==
    IF i > Len(buckets) THEN st
    ELSE LET b == buckets[i]
         IN IF b \in st.reg THEN StartFrom(st, buckets, i + 1)
            ELSE IF ~Opens(b) THEN [st EXCEPT !.threw = TRUE]
            ELSE LET id == Len(st.pol) + 1
                 IN StartFrom([st EXCEPT
                                 !.pol = Append(@, [bucket |-> b, stopped |-> FALSE]),
                                 !.reg = @ \cup {b},
                                 !.lis = [x \in DOMAIN @ \cup {b} |->
                                            IF x = b THEN id ELSE @[x]]],
                              buckets, i + 1)

Started(buckets) ==
    StartFrom([pol |-> pollers, reg |-> registeredBuckets,
               lis |-> listeners, threw |-> FALSE], buckets, 1)

startListening(buckets) ==
    LET st == Started(buckets)
    IN /\ pollers' = st.pol
       /\ registeredBuckets' = st.reg
       /\ listeners' = st.lis
       /\ lastCall' = [op |-> "start", buckets |-> Range(buckets),
                    threw |-> st.threw, during |-> {}]
       /\ UNCHANGED <<processors, busSubs, tmp, dispatches, finished, events>>
       /\ UNCHANGED <<transportErrors, uploadVars, bucketVars,
                      sideVars, asked>>

\* faulty variant: the bookkeeping is cleared, the pollers are not stopped
stopListeningNoStop ==
    /\ listeners' = <<>>
    /\ registeredBuckets' = {}
    /\ lastCall' = [op |-> "stop", buckets |-> {}, threw |-> FALSE,
                    during |-> InFlight]
    /\ UNCHANGED <<processors, busSubs, tmp, dispatches, finished, events,
                   pollers>>
    /\ UNCHANGED <<transportErrors, uploadVars, bucketVars,
                      sideVars, asked>>

\* faulty variant: listeners.clear() is missing
stopListeningKeepMap ==
    /\ pollers' = [p \in DOMAIN pollers |->
                     IF p \in Range(listeners)
                     THEN [pollers[p] EXCEPT !.stopped = TRUE]
                     ELSE pollers[p]]
    /\ registeredBuckets' = {}
    /\ lastCall' = [op |-> "stop", buckets |-> {}, threw |-> FALSE,
                    during |-> InFlight]
    /\ UNCHANGED <<processors, busSubs, tmp, dispatches, finished, events,
                   listeners>>
    /\ UNCHANGED <<transportErrors, uploadVars, bucketVars, sideVars, asked>>

\* faulty variant: registeredBuckets.clear() is missing
stopListeningKeepSet ==
    /\ pollers' = [p \in DOMAIN pollers |->
                     IF p \in Range(listeners)
                     THEN [pollers[p] EXCEPT !.stopped = TRUE]
                     ELSE pollers[p]]
    /\ listeners' = <<>>
    /\ lastCall' = [op |-> "stop", buckets |-> {}, threw |-> FALSE,
                    during |-> InFlight]
    /\ UNCHANGED <<processors, busSubs, tmp, dispatches, finished, events,
                   registeredBuckets>>
    /\ UNCHANGED <<transportErrors, uploadVars, bucketVars,
                      sideVars, asked>>

\* faulty variant: stopListening also drops the calls in flight
stopListeningCancel ==
    /\ pollers' = [p \in DOMAIN pollers |->
                     IF p \in Range(listeners)
                     THEN [pollers[p] EXCEPT !.stopped = TRUE]
                     ELSE pollers[p]]
    /\ listeners' = <<>>
    /\ registeredBuckets' = {}
    /\ lastCall' = [op |-> "stop", buckets |-> {}, threw |-> FALSE,
                    during |-> InFlight]
    /\ dispatches' = [s \in Slots |-> Idle]
    /\ UNCHANGED <<processors, busSubs, tmp, finished, events>>
    /\ UNCHANGED <<transportErrors, uploadVars, bucketVars,
                      sideVars, asked>>

\* faulty variant: stopListening also halts the calls in flight
stopListeningHalt ==
    /\ pollers' = [p \in DOMAIN pollers |->
                     IF p \in Range(listeners)
                     THEN [pollers[p] EXCEPT !.stopped = TRUE]
                     ELSE pollers[p]]
    /\ listeners' = <<>>
    /\ registeredBuckets' = {}
    /\ lastCall' = [op |-> "stop", buckets |-> {}, threw |-> FALSE,
                    during |-> InFlight]
    /\ dispatches' = [s \in Slots |->
                        IF Free(s) THEN Idle
                        ELSE [dispatches[s] EXCEPT !.pc = "halted"]]
    /\ UNCHANGED <<processors, busSubs, tmp, finished, events>>
    /\ UNCHANGED <<transportErrors, uploadVars, bucketVars,
                      sideVars, asked>>

stopListening ==
    /\ pollers' = [p \in DOMAIN pollers |->
                     IF p \in Range(listeners)
                     THEN [pollers[p] EXCEPT !.stopped = TRUE]
                     ELSE pollers[p]]
    /\ listeners' = <<>>
    /\ registeredBuckets' = {}
    /\ lastCall' = [op |-> "stop", buckets |-> {}, threw |-> FALSE,
                    during |-> InFlight]
    /\ UNCHANGED <<processors, busSubs, tmp, dispatches, finished, events>>
    /\ UNCHANGED <<transportErrors, uploadVars, bucketVars,
                      sideVars, asked>>

\* faulty variant: the "error" observer closes the subscription
pollerErrorStops(p) ==
    /\ p \in DOMAIN pollers
    /\ transportErrors' = Append(transportErrors, [poller |-> p, at |-> events])
    /\ pollers' = [pollers EXCEPT ![p].stopped = TRUE]
    /\ UNCHANGED <<processors, registeredBuckets, listeners, busSubs, tmp,
                   dispatches, finished, events, lastCall, uploadVars,
                   bucketVars, sideVars, asked>>

\* poller p emits "error": the observer logs it
pollerError(p) ==
    /\ p \in DOMAIN pollers
    /\ transportErrors' = Append(transportErrors, [poller |-> p, at |-> events])
    /\ UNCHANGED <<processors, registeredBuckets, listeners, pollers, busSubs,
                   tmp, dispatches, finished, events, lastCall, uploadVars,
                   bucketVars, sideVars, asked>>

onUpload(kind) ==
    /\ upSubs' = Append(upSubs, kind)
    /\ UNCHANGED <<processors, registeredBuckets, listeners, pollers, busSubs,
                   tmp, dispatches, finished, events, lastCall,
                   transportErrors, objects, registry, calls, settled,
                   started, bucketVars, sideVars, asked>>

listenerVars ==
    <<processors, registeredBuckets, listeners, pollers, busSubs, tmp,
      dispatches, finished, events, lastCall, transportErrors>>

\* a call starts in the lowest free slot
Begin(c) ==
    /\ \E s \in CallSlots : FreeCall(s)
    /\ LET s == CHOOSE t \in CallSlots :
                   FreeCall(t) /\ \A u \in CallSlots : FreeCall(u) => t <= u
       IN calls' = [calls EXCEPT ![s] = [c EXCEPT !.id = started + 1,
                                                  !.result = "pending"]]
    /\ started' = started + 1
    /\ UNCHANGED <<listenerVars, bucketVars, sideVars, asked, upSubs, objects,
                   registry, settled>>

\* uploadBuffer(buffer, UpFile, mime, {bucket, registerWithOpenHIM}) up to
\* the call of ensureExists; reg is false without an OpenHIM service
uploadBuffer(b, mime, reg) ==
    Begin([NoCall EXCEPT !.op = "uploadBuffer", !.pc = "ensure",
                         !.bucket = b, !.mime = mime, !.reg = reg])

uploadFromPath(b, mime, reg) ==
    Begin([NoCall EXCEPT !.op = "uploadFromPath", !.pc = "ensure",
                         !.bucket = b, !.mime = mime, !.reg = reg])

\* registerBucket(b) up to the call of getMediatorConfig
registerBucket(b) ==
    Begin([NoCall EXCEPT !.op = "registerBucket", !.pc = "regGet",
                         !.bucket = b])

\* ensureExists settles: when it resolves, the bucket is in the
\* BucketManager's set
ensured(s, ok) ==
    LET c == calls[s]
        e == IF ~ok THEN Failed(c)
             ELSE [c EXCEPT !.pc = IF c.op = "uploadBuffer"
                                   THEN "check" ELSE "put"]
    IN /\ c.pc = "ensure"
       /\ calls' = CallMoved(s, e)
       /\ settled' = CallSettled(e)
       /\ known' = IF ok THEN known \cup {c.bucket} ELSE known
       /\ UNCHANGED <<listenerVars, storeBuckets, sideVars, asked, upSubs, objects,
                      registry, started>>

\* checkFileExists settles: exists is true when the object is there with the
\* expected content type; any error gives exists = false
checked(s, ok) ==
    LET c == calls[s]
        exists == ok /\ objects[<<c.bucket, UpFile>>] = c.mime
        e == IF exists THEN [c EXCEPT !.pc = "done", !.result = "failure"]
             ELSE [c EXCEPT !.pc = "put"]
    IN /\ c.pc = "check"
       /\ calls' = CallMoved(s, e)
       /\ settled' = CallSettled(e)
       /\ UNCHANGED <<listenerVars, bucketVars, sideVars, asked, upSubs, objects,
                      registry, started>>

\* putObject / fPutObject settles
stored(s, ok) ==
    LET c == calls[s]
        e == IF ok THEN AfterStore(c) ELSE Failed(c)
    IN /\ c.pc = "put"
       /\ objects' = IF ok THEN [objects EXCEPT ![<<c.bucket, UpFile>>] = c.mime]
                     ELSE objects
       /\ calls' = CallMoved(s, e)
       /\ settled' = CallSettled(e)
       /\ UNCHANGED <<listenerVars, bucketVars, sideVars, asked, upSubs, registry, started>>

\* getMediatorConfig settles: the config, or null after a failed request
gotConfig(s, ok) ==
    LET c == calls[s]
        e == IF ok THEN GotConfig(c) ELSE NoConfig(c)
    IN /\ c.pc = "regGet"
       /\ calls' = CallMoved(s, e)
       /\ settled' = CallSettled(e)
       /\ UNCHANGED <<listenerVars, bucketVars, sideVars, asked, upSubs, objects,
                      registry, started>>

\* the PUT request of putMediatorConfig settles
putConfig(s, ok) ==
    LET c == calls[s]
        e == IF ok THEN Returned(c, "true") ELSE PutFailed(c)
    IN /\ c.pc = "regPut"
       /\ registry' = IF ok THEN [section |-> TRUE, buckets |-> c.local]
                      ELSE registry
       /\ calls' = CallMoved(s, e)
       /\ settled' = CallSettled(e)
       /\ UNCHANGED <<listenerVars, bucketVars, sideVars, asked, upSubs, objects, started>>

\* the steps of the upload and registerBucket calls in flight
CallStep ==
    \/ \E s \in CallSlots, ok \in BOOLEAN : ensured(s, ok)
    \/ \E s \in CallSlots, ok \in BOOLEAN : checked(s, ok)
    \/ \E s \in CallSlots, ok \in BOOLEAN : stored(s, ok)
    \/ \E s \in CallSlots, ok \in BOOLEAN : gotConfig(s, ok)
    \/ \E s \in CallSlots, ok \in BOOLEAN : putConfig(s, ok)

\* the pollers that deliver an object-created event of bucket b
Active(b) == {p \in DOMAIN pollers : pollers[p].bucket = b /\ ~pollers[p].stopped}

\* a set of numbers as an ascending sequence
RECURSIVE Sorted(_)
Sorted(S) ==
    IF S = {} THEN <<>>
    ELSE LET m == CHOOSE x \in S : \A y \in S : x <= y
         IN <<m>> \o Sorted(S \ {m})

\* An object is created in bucket b: every poller subscribed to b emits a
\* "notification", and its observer calls handleNotification(bucket, record).
notification(b, key) ==
    LET act == Sorted(Active(b))
        free == Sorted({s \in Slots : Free(s)})
        n == Len(act)
        d == Enter(events + 1, b, key)
    IN /\ n > 0
       /\ n <= Len(free)
       /\ events' = events + 1
       /\ dispatches' = [s \in Slots |->
                           IF d.pc # "done" /\ \E k \in 1..n : free[k] = s
                           THEN LET k == CHOOSE k \in 1..n : free[k] = s
                                IN [d EXCEPT !.via = act[k]]
                           ELSE dispatches[s]]
       /\ finished' = Settled([d EXCEPT !.via = act[n]])
       /\ UNCHANGED <<processors, registeredBuckets, listeners, pollers,
                      busSubs, tmp, lastCall>>
       /\ UNCHANGED <<transportErrors, uploadVars, bucketVars,
                      sideVars, asked>>

\* fGetObject settles
fetched(s, ok) ==
    LET d == dispatches[s]
        e == IF ok THEN Fetched(d) ELSE FetchFailed(d)
    IN /\ d.pc = "fetch"
       /\ tmp' = IF ok THEN [tmp EXCEPT ![d.file] = d.bucket] ELSE tmp
       /\ dispatches' = Moved(s, e)
       /\ finished' = Settled(e)
       /\ UNCHANGED <<processors, registeredBuckets, listeners, pollers,
                      busSubs, events, lastCall>>
       /\ UNCHANGED <<transportErrors, uploadVars, bucketVars,
                      sideVars, asked>>

\* readFile settles: it fails when the file is gone or on an I/O error
readDone(s, ok) ==
    LET d == dispatches[s]
        e == CASE tmp[d.file] = "none" -> Lost(d)
               [] ok -> Staged(d, tmp[d.file])
               [] OTHER -> Caught(d)
    IN /\ d.pc = "read"
       /\ dispatches' = Moved(s, e)
       /\ finished' = Settled(e)
       /\ UNCHANGED <<processors, registeredBuckets, listeners, pollers,
                      busSubs, tmp, events, lastCall>>
       /\ UNCHANGED <<transportErrors, uploadVars, bucketVars,
                      sideVars, asked>>

\* processor.process settles
processed(s, ok) ==
    LET d == dispatches[s]
        e == IF ok THEN AfterSuccess(d) ELSE AfterFailure(d)
    IN /\ d.pc = "process"
       /\ dispatches' = Moved(s, e)
       /\ finished' = Settled(e)
       /\ UNCHANGED <<processors, registeredBuckets, listeners, pollers,
                      busSubs, tmp, events, lastCall>>
       /\ UNCHANGED <<transportErrors, uploadVars, bucketVars,
                      sideVars, asked>>

\* rm settles: it fails when the file is gone or on an I/O error
removed(s, ok) ==
    LET d == dispatches[s]
        gone == ok /\ tmp[d.file] # "none"
        e == CASE tmp[d.file] = "none" -> Lost(d)
               [] ok -> Cleaned(d)
               [] OTHER -> Caught(d)
    IN /\ d.pc = "rm"
       /\ tmp' = IF gone THEN [tmp EXCEPT ![d.file] = "none"] ELSE tmp
       /\ dispatches' = Moved(s, e)
       /\ finished' = Settled(e)
       /\ UNCHANGED <<processors, registeredBuckets, listeners, pollers,
                      busSubs, events, lastCall>>
       /\ UNCHANGED <<transportErrors, uploadVars, bucketVars,
                      sideVars, asked>>

\* the steps of the calls in flight
Step ==
    \/ \E s \in Slots, ok \in BOOLEAN : fetched(s, ok)
    \/ \E s \in Slots, ok \in BOOLEAN : readDone(s, ok)
    \/ \E s \in Slots, ok \in BOOLEAN : processed(s, ok)
    \/ \E s \in Slots, ok \in BOOLEAN : removed(s, ok)

\* the arguments of startListening: lists over a set of bucket names
Lists(names) == UNION {[1..n -> names] : n \in 0..MaxListLen}

\* faulty variant: getProcessors returns the manager's own array
getProcessorsAlias ==
    /\ listed' = [alias |-> TRUE, items |-> processors, edited |-> FALSE,
                  at |-> events]
    /\ UNCHANGED <<listenerVars, uploadVars, bucketVars, copied, ens, setup,
                   asked>>

\* getProcessors(): a new array with the registered processors in order
getProcessors ==
    /\ listed' = [alias |-> FALSE, items |-> processors, edited |-> FALSE,
                  at |-> events]
    /\ UNCHANGED <<listenerVars, uploadVars, bucketVars, copied, ens, setup,
                   asked>>

\* what the caller does to the array it got: push, pop or reverse
Edit(kind, list) ==
    CASE kind = "push" -> Append(list, "all")
      [] kind = "pop" -> SubSeq(list, 1, Len(list) - 1)
      [] OTHER -> [i \in 1..Len(list) |-> list[Len(list) + 1 - i]]

\* the caller changes the array getProcessors returned; the manager's array
\* changes with it only when both are the same array
mutateListed(kind) ==
    /\ Edit(kind, listed.items) # listed.items
    /\ listed' = [listed EXCEPT !.items = Edit(kind, @), !.edited = TRUE,
                                !.at = events]
    /\ processors' = IF listed.alias THEN Edit(kind, processors)
                     ELSE processors
    /\ UNCHANGED <<registeredBuckets, listeners, pollers, busSubs, tmp,
                   dispatches, finished, events, lastCall, transportErrors,
                   uploadVars, bucketVars, copied, ens, setup, asked>>

EditKinds == {"push", "pop", "reverse"}

\* what registerMediator and fetchConfig hand to their callback: no error,
\* or one of two errors
Outcomes == {"ok", "refused", "unauthorized"}

\* the mediator configurations setupMediator is called with
MediatorConfigs == {"m1", "m2"}

\* setupMediator(mediatorConfig) up to the call of registerMediator; one
\* call at a time
setupMediator(mediatorConfig) ==
    /\ setup.pc \in {"idle", "done"}
    /\ setup' = [setup EXCEPT !.pc = "registering", !.n = @ + 1,
                              !.config = mediatorConfig,
                              !.promise = "pending", !.reason = "none",
                              !.settles = 0, !.active = FALSE,
                              !.ops = <<"registerMediator">>]
    /\ UNCHANGED <<listenerVars, uploadVars, bucketVars, listed, copied, ens,
                   asked>>

\* faulty variant: the return after reject(error) is missing
registeredNoReturn(out) ==
    /\ setup.pc = "registering"
    /\ setup' = IF out # "ok"
                THEN [setup EXCEPT !.pc = "fetching", !.promise = "rejected",
                                   !.reason = out, !.settles = @ + 1,
                                   !.ops = Append(@, "fetchConfig")]
                ELSE [setup EXCEPT !.pc = "fetching",
                                   !.ops = Append(@, "fetchConfig")]
    /\ UNCHANGED <<listenerVars, uploadVars, bucketVars, listed, copied, ens,
                   asked>>

\* the callback of registerMediator: an error rejects the promise, else
\* fetchConfig is called
registered(out) ==
    /\ setup.pc = "registering"
    /\ setup' = IF out # "ok"
                THEN [setup EXCEPT !.pc = "done", !.promise = "rejected",
                                   !.reason = out, !.settles = @ + 1]
                ELSE [setup EXCEPT !.pc = "fetching",
                                   !.ops = Append(@, "fetchConfig")]
    /\ UNCHANGED <<listenerVars, uploadVars, bucketVars, listed, copied, ens,
                   asked>>

\* settling a promise that is settled already has no effect
Settle(st, how, why) ==
    IF st.promise = "pending"
    THEN [st EXCEPT !.promise = how, !.reason = why, !.settles = @ + 1]
    ELSE st

\* the callback of fetchConfig: an error rejects the promise, else the
\* heartbeat is activated, its two observers are attached and the promise
\* is resolved
configFetched(out) ==
    /\ setup.pc = "fetching"
    /\ setup' = IF out # "ok"
                THEN [Settle(setup, "rejected", out) EXCEPT !.pc = "done"]
                ELSE [Settle(setup, "resolved", "none") EXCEPT
                        !.pc = "done", !.active = TRUE,
                        !.emitters = @ + 1,
                        !.ops = Append(@, "activateHeartbeat")]
    /\ UNCHANGED <<listenerVars, uploadVars, bucketVars, listed, copied, ens,
                   asked>>

\* a heartbeat emits "error": the observer logs it
heartbeatError(err) ==
    /\ setup.emitters > 0
    /\ setup' = [setup EXCEPT !.logged = Append(@, err)]
    /\ UNCHANGED <<listenerVars, uploadVars, bucketVars, listed, copied, ens,
                   asked>>

\* a heartbeat emits "config": the observer keeps the bucket registry of the
\* new configuration, or the empty list when it has none
heartbeatConfig(reg) ==
    /\ setup.emitters > 0
    /\ setup' = [setup EXCEPT !.openhimConfig = reg]
    /\ UNCHANGED <<listenerVars, uploadVars, bucketVars, listed, copied, ens,
                   asked>>

\* ensureExists(bucket, createIfNotExists) up to the call of bucketExists;
\* one direct call at a time
ensureExists(b, create) ==
    /\ ens.pc \in {"idle", "done"}
    /\ ens' = [NoEnsure EXCEPT !.pc = "exists", !.bucket = b,
                               !.create = create, !.before = known,
                               !.result = "pending"]
    /\ UNCHANGED <<listenerVars, uploadVars, bucketVars, listed, copied,
                   setup, asked>>

\* faulty variant: the bucket is recorded as soon as bucketExists answered
bucketExistsDoneRecordFirst(ok) ==
    LET exists == ens.bucket \in storeBuckets
    IN /\ ens.pc = "exists"
       /\ known' = IF ok THEN known \cup {ens.bucket} ELSE known
       /\ ens' = IF ~ok
                 THEN [ens EXCEPT !.pc = "done", !.found = "error",
                                  !.result = "error"]
                 ELSE IF exists
                 THEN [ens EXCEPT !.pc = "done", !.found = "yes",
                                  !.result = "ok"]
                 ELSE IF ens.create
                 THEN [ens EXCEPT !.pc = "make", !.found = "no"]
                 ELSE [ens EXCEPT !.pc = "done", !.found = "no",
                                  !.result = "BucketDoesNotExistError"]
       /\ UNCHANGED <<listenerVars, uploadVars, storeBuckets, listed, copied,
                      setup, asked>>

\* client.bucketExists settles: a rejection is rethrown; an existing bucket
\* is recorded; a missing one is created when asked to, else the call throws
bucketExistsDone(ok) ==
    LET exists == ens.bucket \in storeBuckets
    IN /\ ens.pc = "exists"
       /\ known' = IF ok /\ exists THEN known \cup {ens.bucket} ELSE known
       /\ ens' = IF ~ok
                 THEN [ens EXCEPT !.pc = "done", !.found = "error",
                                  !.result = "error"]
                 ELSE IF exists
                 THEN [ens EXCEPT !.pc = "done", !.found = "yes",
                                  !.result = "ok"]
                 ELSE IF ens.create
                 THEN [ens EXCEPT !.pc = "make", !.found = "no"]
                 ELSE [ens EXCEPT !.pc = "done", !.found = "no",
                                  !.result = "BucketDoesNotExistError"]
       /\ UNCHANGED <<listenerVars, uploadVars, storeBuckets, listed, copied,
                      setup, asked>>

\* client.makeBucket settles: the created bucket is recorded; a rejection
\* is rethrown
makeBucketDone(ok) ==
    /\ ens.pc = "make"
    /\ storeBuckets' = IF ok THEN storeBuckets \cup {ens.bucket}
                       ELSE storeBuckets
    /\ known' = IF ok THEN known \cup {ens.bucket} ELSE known
    /\ ens' = [ens EXCEPT !.pc = "done", !.made = ok,
                          !.result = IF ok THEN "ok" ELSE "error"]
    /\ UNCHANGED <<listenerVars, uploadVars, listed, copied, setup, asked>>

\* getRegisteredBuckets(): a new Set with the recorded buckets
getRegisteredBuckets ==
    /\ copied' = [alias |-> FALSE, items |-> known, edited |-> FALSE]
    /\ UNCHANGED <<listenerVars, uploadVars, bucketVars, listed, ens, setup,
                   asked>>

\* what the caller does to the set it got: add, delete or clear
Change(kind, set) ==
    CASE kind = "add" -> set \cup {InvalidBucket}
      [] kind = "delete" -> set \ {"b1"}
      [] OTHER -> {}

ChangeKinds == {"add", "delete", "clear"}

\* the caller changes the set getRegisteredBuckets returned; the manager's
\* set changes with it only when both are the same set
mutateCopied(kind) ==
    /\ Change(kind, copied.items) # copied.items
    /\ copied' = [copied EXCEPT !.items = Change(kind, @), !.edited = TRUE]
    /\ known' = IF copied.alias THEN Change(kind, known) ELSE known
    /\ UNCHANGED <<listenerVars, uploadVars, storeBuckets, listed, ens,
                   setup, asked>>

\* no handleNotification call is in flight
Quiet == \A s \in Slots : Free(s)

\* ------------------------------------------------------- specifications
\* The whole life of one ListenerManager, from its construction.
Next ==
    \/ \E k \in ProcKinds : Len(processors) < MaxProcs /\ registerProcessor(k)
    \/ \E k \in SubKinds : Len(busSubs) < MaxSubs /\ onNotification(k)
    \/ \E bs \in Lists(Names) :
          Len(Started(bs).pol) <= MaxPollers /\ startListening(bs)
    \/ stopListening
    \/ \E b \in Buckets, key \in EventKeys :
          events < MaxEvents /\ notification(b, key)
    \/ Step
    \/ \E p \in 1..MaxPollers :
          Len(transportErrors) < MaxErrors /\ pollerError(p)
    \/ \E k \in SubKinds : Len(upSubs) < MaxSubs /\ onUpload(k)
    \/ \E b \in Buckets, m \in ContentTypes, reg \in BOOLEAN :
          started < MaxCalls /\ uploadBuffer(b, m, reg)
    \/ \E b \in Buckets, m \in ContentTypes, reg \in BOOLEAN :
          started < MaxCalls /\ uploadFromPath(b, m, reg)
    \/ \E b \in Buckets : started < MaxCalls /\ registerBucket(b)
    \/ CallStep

Spec == Init /\ [][Next]_vars

\* The state after startListening(["b1", "b2"]) on a new manager.
Listening ==
    /\ registeredBuckets = Buckets
    /\ listeners = [b \in Buckets |-> IF b = "b1" THEN 1 ELSE 2]
    /\ pollers = <<[bucket |-> "b1", stopped |-> FALSE],
                   [bucket |-> "b2", stopped |-> FALSE]>>
    /\ tmp = [k \in FileKeys |-> "none"]
    /\ dispatches = [s \in Slots |-> Idle]
    /\ finished = Idle
    /\ events = 0
    /\ lastCall = [op |-> "start", buckets |-> Buckets, threw |-> FALSE,
                   during |-> {}]
    /\ transportErrors = <<>>
    /\ NoUploads

\* Fan-out: a manager that listens on both buckets; processors are registered
\* at any time, notifications are handled one after the other.
InitFan == processors = <<>> /\ busSubs = <<>> /\ Listening

NextFan ==
    \/ \E k \in ProcKinds : Len(processors) < MaxProcs /\ registerProcessor(k)
    \/ \E b \in Buckets, key \in EventKeys :
          events < MaxEvents /\ Quiet /\ notification(b, key)
    \/ Step

SpecFan == InitFan /\ [][NextFan]_vars

\* Event bus: a manager that listens on both buckets with two processors
\* registered; bus subscribers are added at any time.
InitBus == processors = <<"json", "all">> /\ busSubs = <<>> /\ Listening

NextBus ==
    \/ \E k \in SubKinds : Len(busSubs) < MaxSubs /\ onNotification(k)
    \/ \E b \in Buckets, key \in EventKeys :
          events < MaxEvents /\ Quiet /\ notification(b, key)
    \/ Step

SpecBus == InitBus /\ [][NextBus]_vars

\* Subscriptions: startListening and stopListening in any order on a manager
\* with one processor; notifications are handled one after the other.
InitSub ==
    /\ processors = <<"all">>
    /\ registeredBuckets = {}
    /\ listeners = <<>>
    /\ pollers = <<>>
    /\ busSubs = <<>>
    /\ tmp = [k \in FileKeys |-> "none"]
    /\ dispatches = [s \in Slots |-> Idle]
    /\ finished = Idle
    /\ events = 0
    /\ lastCall = [op |-> "none", buckets |-> {}, threw |-> FALSE, during |-> {}]
    /\ transportErrors = <<>>
    /\ NoUploads

NextSub ==
    \/ \E bs \in Lists(Buckets) :
          Len(Started(bs).pol) <= MaxPollers /\ startListening(bs)
    \/ stopListening
    \/ \E b \in Buckets, key \in EventKeys :
          events < MaxEvents /\ Quiet /\ notification(b, key)
    \/ Step

SpecSub == InitSub /\ [][NextSub]_vars

\* Concurrency: a manager that listens on both buckets with one processor
\* that accepts every file; a notification may arrive while others are
\* being handled.
InitCon == processors = <<"all">> /\ busSubs = <<>> /\ Listening

NextCon ==
    \/ \E b \in Buckets, key \in EventKeys :
          events < MaxEvents /\ notification(b, key)
    \/ Step

SpecCon == InitCon /\ [][NextCon]_vars

\* Shutdown: a manager that listens on both buckets with two processors;
\* stopListening is called and a poller reports an error at any time, also
\* while a notification is being handled.
InitStop == processors = <<"all", "json">> /\ busSubs = <<>> /\ Listening

NextStop ==
    \/ stopListening
    \/ \E p \in 1..MaxPollers :
          Len(transportErrors) < MaxErrors /\ pollerError(p)
    \/ \E b \in Buckets, key \in EventKeys :
          events < MaxEvents /\ Quiet /\ notification(b, key)
    \/ Step

SpecStop == InitStop /\ [][NextStop]_vars

\* Opening: startListening with any list of names, among them one the
\* storage client rejects; one notification at a time.
NextOpen ==
    \/ \E bs \in Lists(Names) :
          Len(Started(bs).pol) <= MaxPollers /\ startListening(bs)
    \/ \E b \in Buckets :
          events < MaxEvents /\ Quiet /\ notification(b, <<"report">>)
    \/ Step

SpecOpen == InitSub /\ [][NextOpen]_vars

\* no upload or registerBucket call is in flight
Calm == \A s \in CallSlots : FreeCall(s)

\* Signals: a manager that listens on both buckets, without processors;
\* listeners of both signal kinds are added at any time; notifications and
\* uploads (without bucket registration) happen one after the other.
InitSignals == processors = <<>> /\ busSubs = <<>> /\ Listening

NextSignals ==
    \/ \E k \in SubKinds : Len(busSubs) < MaxSubs /\ onNotification(k)
    \/ \E k \in SubKinds : Len(upSubs) < MaxSubs /\ onUpload(k)
    \/ events < MaxEvents /\ Quiet /\ Calm /\ notification("b1", <<"report">>)
    \/ \E s \in Slots, ok \in BOOLEAN : fetched(s, ok)
    \/ \E s \in Slots, ok \in BOOLEAN : readDone(s, ok)
    \/ \E s \in Slots, ok \in BOOLEAN : removed(s, ok)
    \/ started < MaxCalls /\ Quiet /\ Calm
          /\ uploadBuffer("b1", "text/csv", FALSE)
    \/ started < MaxCalls /\ Quiet /\ Calm
          /\ uploadFromPath("b1", "text/csv", FALSE)
    \/ \E s \in CallSlots, ok \in BOOLEAN : ensured(s, ok)
    \/ \E s \in CallSlots, ok \in BOOLEAN : checked(s, ok)
    \/ \E s \in CallSlots, ok \in BOOLEAN : stored(s, ok)

SpecSignals == InitSignals /\ [][NextSignals]_vars

\* Uploads: uploads and registerBucket calls in any order and interleaved,
\* with one listener for uploads that returns; the registry starts without
\* a config section, empty, or with b1.
InitUp ==
    /\ processors = <<>>
    /\ registeredBuckets = {}
    /\ listeners = <<>>
    /\ pollers = <<>>
    /\ busSubs = <<>>
    /\ tmp = [k \in FileKeys |-> "none"]
    /\ dispatches = [s \in Slots |-> Idle]
    /\ finished = Idle
    /\ events = 0
    /\ lastCall = [op |-> "none", buckets |-> {}, threw |-> FALSE, during |-> {}]
    /\ transportErrors = <<>>
    /\ upSubs = <<"ok">>
    /\ objects = [k \in ObjectKeys |-> "none"]
    /\ registry \in {[section |-> FALSE, buckets |-> <<>>],
                     [section |-> TRUE, buckets |-> <<>>],
                     [section |-> TRUE, buckets |-> <<"b1">>]}
    /\ calls = [s \in CallSlots |-> NoCall]
    /\ settled = NoCall
    /\ started = 0
    /\ Untouched

NextUp ==
    \/ \E b \in Buckets, reg \in BOOLEAN :
          started < MaxCalls /\ uploadBuffer(b, "text/csv", reg)
    \/ \E b \in Buckets, reg \in BOOLEAN :
          started < MaxCalls /\ uploadFromPath(b, "text/csv", reg)
    \/ \E b \in Buckets : started < MaxCalls /\ registerBucket(b)
    \/ CallStep

SpecUp == InitUp /\ [][NextUp]_vars

\* Repeated uploads: uploadBuffer calls for the same file name in both
\* buckets, with either content type, in any order and interleaved.
NextDup ==
    \/ \E b \in Buckets, m \in ContentTypes :
          started < MaxCalls /\ uploadBuffer(b, m, FALSE)
    \/ \E s \in CallSlots, ok \in BOOLEAN : ensured(s, ok)
    \/ \E s \in CallSlots, ok \in BOOLEAN : checked(s, ok)
    \/ \E s \in CallSlots, ok \in BOOLEAN : stored(s, ok)

SpecDup == Init /\ [][NextDup]_vars

\* Classification: a manager that listens on b1 with the processor for
\* JSON files; notifications for all kinds of file names, one at a time.
InitMime ==
    /\ processors = <<"json">>
    /\ registeredBuckets = {"b1"}
    /\ listeners = [b \in {"b1"} |-> 1]
    /\ pollers = <<[bucket |-> "b1", stopped |-> FALSE]>>
    /\ busSubs = <<>>
    /\ tmp = [k \in MimeKeys |-> "none"]
    /\ dispatches = [s \in Slots |-> Idle]
    /\ finished = Idle
    /\ events = 0
    /\ lastCall = [op |-> "start", buckets |-> {"b1"}, threw |-> FALSE,
                   during |-> {}]
    /\ transportErrors = <<>>
    /\ NoUploads

NextMime ==
    \/ \E key \in MimeKeys :
          events < MaxEvents /\ Quiet /\ notification("b1", key)
    \/ Step

SpecMime == InitMime /\ [][NextMime]_vars

\* the next step of the call in slot s: the operation it awaits settles
SlotStep(s) ==
    \/ \E ok \in BOOLEAN : fetched(s, ok)
    \/ \E ok \in BOOLEAN : readDone(s, ok)
    \/ \E ok \in BOOLEAN : processed(s, ok)
    \/ \E ok \in BOOLEAN : removed(s, ok)

\* Termination: a manager that listens on both buckets with one processor;
\* notifications for one file name arrive while others are being handled
\* (the calls share the temporary copy), stopListening is
\* called at any time.  Every fetch, read, action and removal that a call
\* awaits settles eventually (weak fairness of each call's next step).
NextLive ==
    \/ stopListening
    \/ \E b \in Buckets :
          events < MaxEvents /\ notification(b, <<"report">>)
    \/ \E s \in Slots : SlotStep(s)

SpecLive ==
    InitCon /\ [][NextLive]_vars /\ \A s \in Slots : WF_vars(SlotStep(s))

\* Registry: a manager that listens on both buckets; processors are
\* registered and stopListening is called at any time, notifications of
\* one file are handled one after the other.
RegKinds == {"json", "all"}

NextReg ==
    \/ \E k \in RegKinds : Len(processors) < MaxProcs /\ registerProcessor(k)
    \/ stopListening
    \/ events < MaxEvents /\ Quiet /\ notification("b1", <<"data", "json">>)
    \/ Step

SpecReg == InitFan /\ [][NextReg]_vars

\* Listing: as before without stopListening; the list is read with
\* getProcessors and the caller changes what it got.
NextList ==
    \/ \E k \in RegKinds : Len(processors) < MaxProcs /\ registerProcessor(k)
    \/ getProcessors
    \/ \E kind \in EditKinds :
          Len(Edit(kind, listed.items)) <= MaxProcs /\ mutateListed(kind)
    \/ events < MaxEvents /\ Quiet /\ notification("b1", <<"data", "json">>)
    \/ Step

SpecList == InitFan /\ [][NextList]_vars

\* Bookkeeping: the whole life of a manager, from its construction, with
\* every operation that could touch the subscribed-bucket set and the
\* handle map: one processor is registered at some time, startListening is
\* called with lists that repeat a bucket or hold an invalid name, the
\* first subscription reports errors, notifications of one file are handled
\* one after the other.
KeepLists == { <<"b1">>, <<"b2", "b1">>, <<"b1", InvalidBucket, "b2">> }

NextKeep ==
    \/ processors = <<>> /\ registerProcessor("all")
    \/ \E bs \in KeepLists :
          Len(Started(bs).pol) <= MaxPollers /\ startListening(bs)
    \/ stopListening
    \/ Len(transportErrors) < MaxErrors /\ pollerError(1)
    \/ events < MaxEvents /\ Quiet /\ notification("b1", <<"report">>)
    \/ Step

SpecKeep == Init /\ [][NextKeep]_vars

\* Buckets: a BucketManager over a store that holds any of the buckets;
\* ensureExists is called directly, one call at a time, the recorded set is
\* read with getRegisteredBuckets and the caller changes what it got.
InitEns ==
    /\ processors = <<>>
    /\ registeredBuckets = {}
    /\ listeners = <<>>
    /\ pollers = <<>>
    /\ busSubs = <<>>
    /\ tmp = [k \in FileKeys |-> "none"]
    /\ dispatches = [s \in Slots |-> Idle]
    /\ finished = Idle
    /\ events = 0
    /\ lastCall = [op |-> "none", buckets |-> {}, threw |-> FALSE, during |-> {}]
    /\ transportErrors = <<>>
    /\ upSubs = <<>>
    /\ objects = [k \in ObjectKeys |-> "none"]
    /\ registry = [section |-> TRUE, buckets |-> <<>>]
    /\ calls = [s \in CallSlots |-> NoCall]
    /\ settled = NoCall
    /\ started = 0
    /\ known = {}
    /\ storeBuckets \in SUBSET Buckets
    /\ listed = NoList
    /\ copied = NoSet
    /\ ens = NoEnsure
    /\ setup = NoSetup
    /\ asked = <<>>

NextEns ==
    \/ \E b \in Buckets, create \in BOOLEAN : ensureExists(b, create)
    \/ \E ok \in BOOLEAN : bucketExistsDone(ok)
    \/ \E ok \in BOOLEAN : makeBucketDone(ok)
    \/ getRegisteredBuckets
    \/ \E kind \in ChangeKinds : mutateCopied(kind)

SpecEns == InitEns /\ [][NextEns]_vars

\* Mediator setup: setupMediator is called again after it settled; the
\* activated heartbeats report errors and new configurations at any time.
NextSetup ==
    \/ \E mc \in MediatorConfigs : setup.n < MaxCalls /\ setupMediator(mc)
    \/ \E out \in Outcomes : registered(out)
    \/ \E out \in Outcomes : configFetched(out)
    \/ \E err \in Outcomes \ {"ok"} :
          Len(setup.logged) < MaxErrors /\ heartbeatError(err)
    \/ \E reg \in {<<>>, <<"b1">>, <<"b1", "b2">>} : heartbeatConfig(reg)

SpecSetup == Init /\ [][NextSetup]_vars

\* ------------------------------------------------------------ properties
\* the handleNotification calls the state knows: those in flight, and the
\* one that settled last
Calls ==
    {dispatches[s] : s \in {t \in Slots : ~Free(t)}}
      \cup (IF finished.pc = "done" THEN {finished} ELSE {})

Count(d, name) == Cardinality({k \in DOMAIN d.ops : d.ops[k].op = name})

\* the processors whose action call d invoked, in the order of the calls
Invoked(d) ==
    LET sel == SelectSeq(d.ops, LAMBDA o : o.op = "process")
    IN [k \in 1..Len(sel) |-> sel[k].i]

\* the processors registered when the fan-out of d ended
Registered(d) == SubSeq(processors, 1, d.plen)

Answer(P, i, file) == canProcess(P[i], file, detectMimeType(file))

\* the indices of the processors of P whose predicate returns true for file
Matching(P, file) ==
    SelectSeq([i \in 1..Len(P) |-> i], LAMBDA i : Answer(P, i, file) = "true")

\* ... of those that no processor with a raising predicate precedes
Reachable(P, file) ==
    SelectSeq([i \in 1..Len(P) |-> i],
              LAMBDA i : /\ Answer(P, i, file) = "true"
                         /\ \A j \in 1..(i - 1) : Answer(P, j, file) # "throw")

\* d was staged (fetched and read) and its fan-out loop is over
FannedOut(d) == d.buffer # "none" /\ d.pc \in {"rm", "done"}

\* C1: for every staged notification the processors whose action is invoked
\* are exactly those registered whose canProcess returns true, each once, in
\* registration order.
C1_ExactlyTheMatchingInvoked ==
    \A d \in Calls :
        FannedOut(d) => Invoked(d) = Matching(Registered(d), d.file)

\* C2: a processor whose action raised does not prevent the matching
\* processors after it from being invoked on the same file (all of them that
\* the loop reaches are invoked, in order), the subscriptions stay open, and
\* a notification handled after the failure is staged and fanned out as usual.
C2_ActionFailureIsolated ==
    \A d \in Calls :
        /\ (FannedOut(d) /\ d.failed # {}) =>
              Invoked(d) = Reachable(Registered(d), d.file)
        /\ d.failed # {} =>
              \A b \in registeredBuckets : ~pollers[listeners[b]].stopped
        /\ (finished.failed # {} /\ d.ev > finished.ev /\ FannedOut(d)) =>
              Invoked(d) = Reachable(Registered(d), d.file)

\* C2 witness: the last settled call had an action raise and invoked a later
\* processor all the same; a later notification of the other bucket has been
\* staged and fanned out.
C2_Witness ==
    /\ finished.pc = "done"
    /\ \E i \in finished.failed : \E k \in DOMAIN Invoked(finished) :
           Invoked(finished)[k] > i
    /\ \E s \in Slots :
         /\ dispatches[s].ev > finished.ev
         /\ dispatches[s].bucket # finished.bucket
         /\ dispatches[s].pc = "rm"
         /\ Len(Invoked(dispatches[s])) = 2

\* C3: a call whose fetch succeeded (so that readFile was called) has removed
\* the temporary copy exactly once when it settles.
C3_CleanupOncePerStaged ==
    (finished.pc = "done" /\ Count(finished, "read") = 1) =>
        Count(finished, "rm") = 1

\* C4: no handleNotification call rejects: every error of a notification is
\* contained in the handler.
C4_ErrorsContained ==
    \A d \in Calls : d.result # "rejected"

\* C5: a notification without an object key (missing or empty) never reaches
\* a suspension point, and what its call did is one warning and nothing else:
\* no predicate, no action, no fetch, read or removal; it returns normally.
C5_NoKeyNoWork ==
    /\ \A s \in Slots : ~Free(s) => dispatches[s].file \notin {NoKey, EmptyKey}
    /\ (finished.pc = "done" /\ finished.file \in {NoKey, EmptyKey}) =>
          /\ finished.ops = <<Op("warn", 0)>>
          /\ finished.result = "returned"

\* C5 witness: a notification with an empty key settled while processors
\* were registered.
C5_Witness ==
    /\ finished.pc = "done"
    /\ finished.file = EmptyKey
    /\ Len(processors) = MaxProcs

\* C9: every call for a notification with an object key published exactly one
\* signal with its bucket, file and event type, before anything else it did
\* (so before the fetch), whatever happened to it afterwards.
C9_SignalPublishedFirst ==
    \A d \in Calls :
        d.file \notin {NoKey, EmptyKey} =>
            /\ Count(d, "emit") = 1
            /\ d.ops[1] = Op("emit", 0)
            /\ d.signals = <<[bucket |-> d.bucket, file |-> d.file,
                              eventType |-> "s3:ObjectCreated:*"]>>

\* C9 witness: a call whose processor action and whose removal both failed
\* has settled; its signal was published.
C9_Witness ==
    /\ finished.pc = "done"
    /\ finished.failed # {}
    /\ finished.ops[Len(finished.ops)] = Op("error", 0)
    /\ Count(finished, "rm") = 1
    /\ Len(finished.signals) = 1

\* a settled call whose fetch failed
FetchFailure(d) ==
    d.pc = "done" /\ Count(d, "fetch") = 1 /\ Count(d, "read") = 0

\* C10: a call whose fetch failed did nothing after logging the failure (no
\* read, no predicate, no action, no removal) and returned; the subscription
\* of its bucket is still open.
C10_FetchFailureAborts ==
    FetchFailure(finished) =>
        /\ finished.ops = <<Op("emit", 0), Op("fetch", 0), Op("error", 0)>>
        /\ finished.result = "returned"
        /\ finished.bucket \in registeredBuckets
        /\ Active(finished.bucket) = {listeners[finished.bucket]}

\* C10 witness: after a fetch failure, a later notification of the same
\* bucket is being processed.
C10_Witness ==
    /\ FetchFailure(finished)
    /\ Len(processors) > 0
    /\ \E s \in Slots :
         /\ dispatches[s].ev > finished.ev
         /\ dispatches[s].bucket = finished.bucket
         /\ dispatches[s].pc = "process"

\* C6, in every state: at most one subscription of a bucket is open, and
\* after a startListening call every bucket it named has exactly one.
C6_AtMostOne ==
    /\ \A b \in Buckets : Cardinality(Active(b)) <= 1
    /\ (lastCall.op = "start" /\ ~lastCall.threw) =>
          \A b \in lastCall.buckets : Cardinality(Active(b)) = 1

\* C6, in every step: a bucket that is subscribed keeps its subscription
\* when startListening is called again (no new poller replaces it).
C6_NoOpWhenSubscribed ==
    lastCall'.op = "start" =>
        \A b \in registeredBuckets :
            /\ b \in registeredBuckets'
            /\ listeners'[b] = listeners[b]
            /\ pollers'[listeners[b]] = pollers[listeners[b]]

\* C6: at most one active subscription per bucket name; startListening opens
\* one subscription per distinct name and is a no-op for subscribed buckets.
C6_OneSubscriptionPerBucket ==
    []C6_AtMostOne /\ [][C6_NoOpWhenSubscribed]_vars

\* C6 witness: b1 was subscribed before b2, and the last call was
\* startListening on b1 alone: it opened nothing.
C6_Witness ==
    /\ lastCall.op = "start" /\ lastCall.buckets = {"b1"} /\ ~lastCall.threw
    /\ pollers = <<[bucket |-> "b1", stopped |-> FALSE],
                   [bucket |-> "b2", stopped |-> FALSE]>>

\* C7: the handle recorded for a subscribed bucket is an open poller (after
\* stopListening and startListening: a new one), and every event is handled
\* by exactly one handleNotification call.
C7_FreshSubscriptionSingleDispatch ==
    /\ \A b \in registeredBuckets : Active(b) = {listeners[b]}
    /\ \A e \in 1..events :
          Cardinality({s \in Slots : dispatches[s].ev = e})
            + (IF finished.ev = e THEN 1 ELSE 0) <= 1
    /\ events > 0 => \E d \in Calls : d.ev = events

\* C7 witness: a bucket was subscribed, stopped and subscribed again, and an
\* event delivered by the new poller has been handled to the end.
C7_Witness ==
    /\ finished.pc = "done"
    /\ finished.ev = events
    /\ Count(finished, "process") = 1
    /\ Count(finished, "rm") = 1
    /\ finished.bucket \in registeredBuckets
    /\ finished.via = listeners[finished.bucket]
    /\ \E p \in 1..(finished.via - 1) :
           pollers[p].bucket = finished.bucket /\ pollers[p].stopped

\* C8, in every state: after stopListening no poller is open and the set and
\* the map are empty; the call does not throw.
C8_AllStopped ==
    lastCall.op = "stop" =>
        /\ \A p \in DOMAIN pollers : pollers[p].stopped
        /\ registeredBuckets = {}
        /\ listeners = <<>>
        /\ ~lastCall.threw

\* C8, in every step: stopListening without a subscription changes nothing.
C8_NoOpWhenEmpty ==
    (lastCall'.op = "stop" /\ listeners = <<>>) =>
        UNCHANGED <<pollers, registeredBuckets, listeners>>

\* C8: stopListening stops the poller of every active subscription and
\* leaves the set and the map empty; without a subscription it is a no-op.
C8_StopClearsEverything ==
    []C8_AllStopped /\ [][C8_NoOpWhenEmpty]_vars

\* C8 witness: two subscriptions were open and stopListening stopped both.
C8_Witness ==
    /\ lastCall.op = "stop"
    /\ Len(pollers) = 2
    /\ pollers[1].bucket # pollers[2].bucket
    /\ pollers[1].stopped /\ pollers[2].stopped

\* C11: the fan-out of a notification considers only the processors that were
\* registered when the fan-out started: a processor registered while the call
\* is suspended in an action is neither consulted nor invoked by that call.
C11_SnapshotAtDispatchStart ==
    \A d \in Calls :
        d.buffer # "none" =>
            \A k \in DOMAIN d.ops :
                d.ops[k].op \in {"canProcess", "process"} => d.ops[k].i <= d.snap

\* C12: a call whose temporary copy was removed by another call for the same
\* file name still reaches its cleanup step: it is not aborted by the other
\* call's removal.
C12_CleanupForBoth ==
    \A d \in Calls : (d.pc = "done" /\ d.missing) => Count(d, "rm") = 1

\* C13: the bytes in the ProcessingContext of a notification for object
\* (bucket, file) are those of that object, whatever else is in flight.
C13_OwnBytes ==
    \A d \in Calls : d.buffer # "none" => d.buffer = d.bucket

\* the outer catch of d ran
Aborted(d) == \E k \in DOMAIN d.ops : d.ops[k] = Op("error", 0)

\* C14, in every state: a call that was in flight when stopListening was
\* called is still in flight or has settled; it can take its next step; once
\* its fan-out is over it has invoked the matching processors, and when it
\* settles without an error of its own it has removed the temporary copy.
C14_InFlightSurvives ==
    /\ lastCall.op = "stop" =>
          \A e \in lastCall.during : \E d \in Calls :
              /\ d.ev = e
              /\ FannedOut(d) => Invoked(d) = Matching(Registered(d), d.file)
              /\ (d.pc = "done" /\ ~Aborted(d)) =>
                    FannedOut(d) /\ Count(d, "rm") = 1
    /\ \A s \in Slots :
          ~Free(s) => ENABLED (\/ fetched(s, TRUE) \/ readDone(s, TRUE)
                               \/ processed(s, TRUE) \/ removed(s, TRUE))

\* C14, in every step: stopListening leaves the calls in flight as they are.
C14_StopLeavesCalls ==
    (lastCall' # lastCall /\ lastCall'.op = "stop") =>
        UNCHANGED <<dispatches, finished, tmp>>

\* C14: stopListening does not cancel the calls in flight: they run their
\* remaining processors and their cleanup after it.
C14_StopDoesNotCancel ==
    []C14_InFlightSurvives /\ [][C14_StopLeavesCalls]_vars

\* C14 witness: stopListening was called while a notification for data.json
\* was being fetched; afterwards that call invoked both processors, removed
\* the temporary copy and returned.
C14_Witness ==
    /\ lastCall.op = "stop"
    /\ finished.ev \in lastCall.during
    /\ finished.pc = "done"
    /\ pollers[finished.via].stopped
    /\ Invoked(finished) = <<1, 2>>
    /\ finished.ops[Len(finished.ops)] = Op("rm", 0)
    /\ tmp[finished.file] = "none"

\* the position of the first name of a list whose subscription cannot be
\* opened by a manager with the subscribed set reg (0: there is none)
FirstFailing(bs, reg) ==
    LET F == {i \in DOMAIN bs : ~Opens(bs[i]) /\ bs[i] \notin reg}
    IN IF F = {} THEN 0 ELSE CHOOSE i \in F : \A j \in F : i <= j

\* C15, in every state: a name whose subscription cannot be opened is never
\* recorded, and a startListening call threw exactly if it was given one.
C15_FailedNotRecorded ==
    /\ InvalidBucket \notin registeredBuckets
    /\ InvalidBucket \notin DOMAIN listeners
    /\ \A p \in DOMAIN pollers : pollers[p].bucket # InvalidBucket
    /\ lastCall.op = "start" =>
          (lastCall.threw <=> InvalidBucket \in lastCall.buckets)

\* C15, in every step: when startListening(bs) fails at position k, the
\* subscriptions that were open before the call are as they were, and the
\* names bs[1..k-1] are subscribed, each with one open poller.
C15_EarlierKept ==
    \A bs \in Lists(Names) :
        LET k == FirstFailing(bs, registeredBuckets)
        IN (k > 0 /\ lastCall'.buckets = Range(bs) /\ startListening(bs)) =>
              /\ lastCall'.threw
              /\ \A b \in registeredBuckets :
                    /\ b \in registeredBuckets'
                    /\ listeners'[b] = listeners[b]
                    /\ ~pollers'[listeners[b]].stopped
              /\ \A i \in 1..(k - 1) :
                    /\ bs[i] \in registeredBuckets'
                    /\ pollers'[listeners'[bs[i]]] =
                          [bucket |-> bs[i], stopped |-> FALSE]
                    /\ \A p \in DOMAIN pollers' :
                          (pollers'[p].bucket = bs[i] /\ ~pollers'[p].stopped)
                             => p = listeners'[bs[i]]

\* C15: a failure to open a subscription propagates to the caller of
\* startListening, the bucket is not recorded, and the subscriptions opened
\* before the failure stay open and recorded.
C15_OpenFailurePropagates ==
    []C15_FailedNotRecorded /\ [][C15_EarlierKept]_vars

\* C15 witness: b1 was subscribed by one call, then a call with b2 and the
\* rejected name threw; both b1 and b2 are subscribed, and a notification of
\* b2 is being handled.
C15_Witness ==
    /\ lastCall.op = "start" /\ lastCall.threw
    /\ lastCall.buckets = {"b2", InvalidBucket}
    /\ pollers = <<[bucket |-> "b1", stopped |-> FALSE],
                   [bucket |-> "b2", stopped |-> FALSE]>>
    /\ registeredBuckets = {"b1", "b2"}
    /\ \E s \in Slots : dispatches[s].bucket = "b2" /\ dispatches[s].via = 2

\* C16, in every step: a poller "error" event changes nothing but the log.
C16_ErrorChangesNothing ==
    transportErrors' # transportErrors =>
        UNCHANGED <<pollers, registeredBuckets, listeners, processors,
                    dispatches, finished, tmp, events, lastCall>>

\* C16, in every state: after a poller "error" event the handle recorded
\* for a subscribed bucket is the open poller of that bucket, and an event of
\* the bucket can be handed to handleNotification.
C16_StillSubscribed ==
    transportErrors # <<>> =>
        \A b \in registeredBuckets :
            /\ Active(b) = {listeners[b]}
            /\ (Quiet /\ events < MaxEvents) => ENABLED notification(b, <<"report">>)

\* C16: a transport error reported by a poller is only logged: the
\* subscription stays open and recorded with the same handle, and later
\* notifications of the subscription are dispatched.
C16_TransportErrorOnlyLogged ==
    []C16_StillSubscribed /\ [][C16_ErrorChangesNothing]_vars

\* C16 witness: a poller reported an error; an event it delivered afterwards
\* was handled to the end, and the bucket is still subscribed with that poller.
C16_Witness ==
    /\ finished.pc = "done"
    /\ Invoked(finished) = <<1, 2>>
    /\ finished.ops[Len(finished.ops)] = Op("rm", 0)
    /\ \E k \in DOMAIN transportErrors :
          /\ transportErrors[k].poller = finished.via
          /\ transportErrors[k].at < finished.ev
    /\ finished.bucket \in registeredBuckets
    /\ listeners[finished.bucket] = finished.via

\* the upload and registerBucket calls the state knows: those in flight, and
\* the one that settled last
UpCalls ==
    {calls[s] : s \in {t \in CallSlots : ~FreeCall(t)}}
      \cup (IF settled.pc = "done" THEN {settled} ELSE {})

\* the listeners of event name that were called for the signal of x
Received(x, name) ==
    {x.delivered[k].sub :
        k \in {j \in DOMAIN x.delivered : x.delivered[j].kind = name}}

\* C17: every listener that does not throw and was registered when a signal
\* was published has received it, also when another listener threw.
C17_ThrowerDoesNotBlock ==
    /\ \A d \in Calls :
          Len(d.signals) = 1 =>
              \A i \in 1..d.nsubs :
                  busSubs[i] # "throw" => i \in Received(d, "bucket:notification")
    /\ \A c \in UpCalls :
          c.signals = 1 =>
              \A i \in 1..c.nsubs :
                  upSubs[i] # "throw" => i \in Received(c, "file:uploaded")

\* C18: when the emit call of a signal returns, the signal has been delivered
\* to all listeners of its kind registered at that time, in registration
\* order, each once, and to no listener of the other kind.
C18_AllInOrderSameKind ==
    /\ \A d \in Calls :
          Len(d.signals) = 1 =>
              d.delivered = [k \in 1..d.nsubs |->
                               [kind |-> "bucket:notification", sub |-> k]]
    /\ \A c \in UpCalls :
          c.signals = 1 =>
              c.delivered = [k \in 1..c.nsubs |->
                               [kind |-> "file:uploaded", sub |-> k]]

\* C19: an upload with registerWithOpenHIM whose object was stored and whose
\* bucket registration failed (registerBucket returned false or threw)
\* reports success.
C19_RegistryFailureHarmless ==
    \A c \in UpCalls :
        ( /\ c.pc = "done"
          /\ c.op \in {"uploadBuffer", "uploadFromPath"}
          /\ c.stored /\ c.reg
          /\ c.ret \in {"false", "threw"} ) => c.result = "success"

\* the number of entries of the registry for bucket b
Entries(b) == Cardinality({i \in DOMAIN registry.buckets : registry.buckets[i] = b})

\* C20, in every state: no bucket has two entries in the registry, and a
\* registerBucket call that found its bucket in the registry returned false
\* without a write request.
C20_NoDuplicate ==
    /\ \A b \in Buckets : Entries(b) <= 1
    /\ \A c \in UpCalls :
          c.cfg = "present" =>
              /\ c.ret = "false" /\ c.puts = 0
              /\ c.op = "registerBucket" => c.result = "false"

\* C20, in every step: when registerBucket reads a registry that holds its
\* bucket, it returns false and the registry is as before, with one entry
\* for the bucket.
C20_PresentIsNoOp ==
    \A s \in CallSlots :
        ( /\ calls[s].pc = "regGet"
          /\ registry.section /\ Has(registry.buckets, calls[s].bucket)
          /\ gotConfig(s, TRUE) ) =>
            /\ registry' = registry
            /\ Entries(calls[s].bucket) = 1
            /\ settled'.id = calls[s].id
            /\ settled'.ret = "false" /\ settled'.puts = 0

\* C20: registerBucket for a bucket that is in the registry returns false,
\* writes nothing and leaves the registry unchanged; a bucket registered
\* several times has one entry.
C20_DuplicateRegistrationNoOp ==
    []C20_NoDuplicate /\ [][C20_PresentIsNoOp]_vars

\* C20 witness: b2 was registered by one call, and a second registerBucket
\* call for b2 returned false; the registry holds b2 once.
C20_Witness ==
    /\ settled.op = "registerBucket" /\ settled.bucket = "b2"
    /\ settled.id = 2
    /\ settled.cfg = "present" /\ settled.result = "false"
    /\ Entries("b2") = 1

\* the positions in the history of d of the calls named name
At(d, name) == {k \in DOMAIN d.ops : d.ops[k].op = name}

\* C24: in the history of every call, the fetch and the read happen at most
\* once each, the read directly after the fetch, both before every predicate
\* and action call; the removal happens at most once, after every predicate
\* and action call, and not while an action is pending.
C24_StepsOrdered ==
    \A d \in Calls :
        /\ Count(d, "fetch") <= 1 /\ Count(d, "read") <= 1 /\ Count(d, "rm") <= 1
        /\ \A r \in At(d, "read") : r - 1 \in At(d, "fetch")
        /\ \A k \in At(d, "canProcess") \cup At(d, "process") :
              /\ \E r \in At(d, "read") : r < k
              /\ d.buffer # "none"
              /\ \A m \in At(d, "rm") : k < m
        /\ d.pc = "process" => At(d, "rm") = {}

\* C24 witness: a call that invoked two processors, the first of which
\* raised, has removed the temporary copy and returned.
C24_Witness ==
    /\ finished.pc = "done"
    /\ Invoked(finished) = <<1, 2>>
    /\ 1 \in finished.failed
    /\ finished.ops[Len(finished.ops)] = Op("rm", 0)
    /\ finished.ops[1] = Op("emit", 0)
    /\ finished.ops[2] = Op("fetch", 0)
    /\ finished.ops[3] = Op("read", 0)

\* C28: a settled upload that reports success has published one
\* upload-completed signal and its object is stored; one that reports failure
\* or throws has published none.
C28_SignalIffSuccess ==
    \A c \in UpCalls :
        (c.pc = "done" /\ c.op \in {"uploadBuffer", "uploadFromPath"}) =>
            /\ c.result = "success" => (c.signals = 1 /\ c.stored)
            /\ c.result \in {"failure", "threw"} => c.signals = 0

\* C27, in every step: when checkFileExists settles for an uploadBuffer call
\* while an object of that name is in the bucket, the call returns
\* success=false without a put and without a signal; and no put of an
\* uploadBuffer call replaces an object.
C27_ExistingIsKept ==
    \A s \in CallSlots :
        LET c == calls[s]
            there == objects[<<c.bucket, UpFile>>] # "none"
        IN /\ (c.pc = "check" /\ there /\ calls'[s] # c) =>
                 /\ settled'.id = c.id
                 /\ settled'.result = "failure"
                 /\ ~settled'.stored /\ settled'.signals = 0
           /\ (c.pc = "put" /\ c.op = "uploadBuffer" /\ there) =>
                 objects' = objects

\* C27: uploadBuffer never stores an object under a name that is taken in
\* the bucket: it returns success=false without calling putObject and
\* without emitting a signal.
C27_NoOverwrite == [][C27_ExistingIsKept]_vars

\* the content type of a file name by its extension: the part after the last
\* dot of a name that has a dot
ByExtension(file) ==
    IF Len(file) >= 2 /\ Lower(file[Len(file)]) \in DOMAIN MimeTypes
    THEN MimeTypes[Lower(file[Len(file)])]
    ELSE "application/octet-stream"

\* C23: the content type given to the processors is the one of the file
\* name's extension, compared case-insensitively, and the generic type for a
\* name with an unknown extension or without an extension.
C23_ClassifiedByExtension ==
    \A d \in Calls : d.buffer # "none" => d.mimeType = ByExtension(d.file)

C21_ReturnedListIsACopy ==
    /\ [](processors = asked)
    /\ [][listed' # listed =>
            /\ processors' = processors
            /\ ~listed'.edited => listed'.items = processors]_vars

\* C21 witness: the caller emptied the array it got while two processors
\* were registered, and a notification that arrived later invoked both.
C21_Witness ==
    /\ listed.edited /\ listed.items = <<>>
    /\ processors = <<"all", "json">>
    /\ finished.pc = "done" /\ finished.ev > listed.at
    /\ Invoked(finished) = <<1, 2>>

\* C22: the processor list is always the sequence of the processors passed
\* to registerProcessor, in call order and with duplicates; a step changes it
\* only by appending the processor of one more registerProcessor call.
C22_ListIsRegistrationLog ==
    /\ [](processors = asked)
    /\ [][processors' # processors =>
            \E k \in RegKinds : /\ processors' = Append(processors, k)
                                /\ asked' = Append(asked, k)]_vars

\* C22 witness: the same processor was registered twice, stopListening was
\* called after a notification arrived, and that notification invoked the
\* processor twice.
C22_Witness ==
    /\ asked = <<"all", "all">> /\ processors = asked
    /\ lastCall.op = "stop"
    /\ finished.pc = "done" /\ Invoked(finished) = <<1, 2>>

\* C25: the subscribed-bucket set is the key set of the handle map and every
\* recorded handle is a subscription that was not stopped; a step changes the
\* set or the map only when it is a startListening or stopListening call.
C25_BookkeepingConsistent ==
    /\ [](/\ registeredBuckets = DOMAIN listeners
          /\ \A b \in DOMAIN listeners :
                /\ listeners[b] \in DOMAIN pollers
                /\ pollers[listeners[b]].bucket = b
                /\ ~pollers[listeners[b]].stopped)
    /\ [][registeredBuckets' # registeredBuckets \/ listeners' # listeners =>
            stopListening \/ \E bs \in KeepLists : startListening(bs)]_vars

\* C25 witness: after a stopListening call and a startListening call that
\* threw on its second bucket, a processor was registered, a poller reported
\* an error and a notification was handled; one bucket is recorded, with the
\* handle of a live subscription, and an older subscription is stopped.
C25_Witness ==
    /\ lastCall.op = "start" /\ lastCall.threw
    /\ registeredBuckets = {"b1"} /\ DOMAIN listeners = {"b1"}
    /\ \E p \in DOMAIN pollers : pollers[p].stopped
    /\ processors # <<>> /\ transportErrors # <<>>
    /\ finished.pc = "done" /\ finished.via = listeners["b1"]

\* C30: while and after a direct ensureExists call the recorded set is the
\* set at the call plus, only when the call succeeded, its bucket, which
\* then exists in the store (it was found or the call created it); a call
\* that finds no bucket and may not create one ends with
\* BucketDoesNotExistError; a failed call leaves the set as it was. No step
\* removes a bucket from the set, and a change to the set that
\* getRegisteredBuckets returned does not change it.
C30_RecordedOnlyWhenPresent ==
    /\ [](/\ ens.pc \in {"exists", "make"} => known = ens.before
          /\ ens.pc = "done" /\ ens.result # "ok" => known = ens.before
          /\ ens.pc = "done" /\ ens.result = "ok" =>
                /\ known = ens.before \cup {ens.bucket}
                /\ ens.bucket \in storeBuckets
                /\ ens.found = "yes" \/ ens.made
          /\ ens.pc = "done" /\ ens.found = "no" /\ ~ens.create =>
                ens.result = "BucketDoesNotExistError"
          /\ ens.result = "BucketDoesNotExistError" =>
                ens.found = "no" /\ ~ens.create
          /\ known \subseteq storeBuckets)
    /\ [][/\ known \subseteq known'
          /\ copied' # copied => known' = known]_vars

\* C30 witness: an earlier call recorded bucket b1, the last call asked for
\* the missing bucket b2 without permission to create it, threw
\* BucketDoesNotExistError and left the set alone, and the caller emptied
\* the copy it had taken of the set.
C30_Witness ==
    /\ ens.pc = "done" /\ ens.result = "BucketDoesNotExistError"
    /\ ens.bucket = "b2" /\ known = {"b1"} /\ storeBuckets = {"b1"}
    /\ copied.edited /\ copied.items = {}

\* C29: a setupMediator call makes its library calls in the order
\* registerMediator, fetchConfig, activateHeartbeat, each one only after the
\* one before succeeded; its promise is resolved exactly when it activated
\* the heartbeat and rejected, with the error of the failed step, exactly
\* when a step failed before that; the promise is settled once and keeps
\* its state; a heartbeat error changes nothing but the log.
C29_SetupInOrder ==
    /\ [](/\ setup.ops \in { <<>>, <<"registerMediator">>,
                              <<"registerMediator", "fetchConfig">>,
                              <<"registerMediator", "fetchConfig",
                                "activateHeartbeat">> }
          /\ setup.active <=> Len(setup.ops) = 3
          /\ setup.promise = "resolved" <=> setup.active
          /\ setup.promise = "rejected" =>
                ~setup.active /\ setup.reason \in Outcomes \ {"ok"}
          /\ setup.promise = "pending" <=>
                setup.pc \in {"registering", "fetching"}
          /\ setup.pc = "done" => setup.settles = 1
          /\ setup.settles <= 1
          /\ setup.emitters <= setup.n)
    /\ [][/\ setup.promise \in {"resolved", "rejected"}
             /\ setup'.n = setup.n
             => /\ setup'.promise = setup.promise
                /\ setup'.reason = setup.reason
                /\ setup'.active = setup.active
          /\ setup'.logged # setup.logged =>
                setup' = [setup EXCEPT !.logged = setup'.logged]]_vars

\* C29 witness: the first call was rejected and activated no heartbeat;
\* the second call registered, fetched, activated
\* the heartbeat and resolved; a heartbeat error was logged afterwards.
C29_Witness ==
    /\ setup.n = 2 /\ setup.emitters = 1
    /\ setup.promise = "resolved" /\ setup.settles = 1
    /\ setup.ops = <<"registerMediator", "fetchConfig", "activateHeartbeat">>
    /\ Len(setup.logged) = 1

====
